---------------------------- MODULE Spec2Model ----------------------------
(***************************************************************************)
(* Model of the maze crate: randomized Kruskal generation over a           *)
(* disjoint-set (kruskal.rs), the grid search of a_star.rs, and the move   *)
(* compressor get_moves.                                                   *)
(*                                                                         *)
(* A Point is a pair <<x, y>>, an edge a pair <<a, b>> of Points, an       *)
(* EdgeSet a set of edges, an EdgeVec a sequence of edges.                 *)
(***************************************************************************)
EXTENDS Integers, Sequences, FiniteSets

VARIABLES
    pc,         \* where the program stands
    width,      \* generate_maze's / a_star_solution's width argument
    height,     \* ... and height argument
    edges,      \* generate_edges: the edges of the HashSet not yet iterated
    graph,      \* generate_edges: Graph.parents, node -> [parent, rank]
    walls,      \* the EdgeSet of walls (Maze.walls once the maze is built)
    paths,      \* the edges whose union_subtrees returned true (no_loop)
    err,        \* how generate_maze / compute_solution failed, "none" if not
    open,       \* a_star_solution: the frontier HashSet<AStarNode>
    closed,     \* a_star_solution: the finalized nodes (HashMap, one node per xy)
    current,    \* a_star_solution: the node the search loop broke with
    path,       \* the EdgeVec trace_path built (a_star_solution's third result)
    pos,        \* get_moves: position of the for loop in the reversed path
    n_moves,    \* get_moves: the move count
    perfect_run,\* get_moves: the instructions
    prev_diff,  \* get_moves: Option<(i32, i32)>
    prev_turn_point,
    before,     \* get_moves: the turning point handed to remaining_length
    old_diff,   \* get_moves: the direction before the turn
    to_use,     \* get_moves: cells travelled since the previous turning point
    distance_from_before  \* remaining_length's counter, then its result

gen_vars == <<edges, graph, paths>>
search_vars == <<open, closed, current>>
move_vars == <<pos, n_moves, perfect_run, prev_diff, prev_turn_point>>
turn_vars == <<before, old_diff, to_use, distance_from_before>>
vars == <<pc, width, height, walls, err, path,
          gen_vars, search_vars, move_vars, turn_vars>>

\* Largest number of cells of the grids handed to generate_maze.
MaxGenCells == 8

\* Largest number of cells of the generated mazes handed to compute_solution.
MaxCells == 10

\* Largest width and height of the grids handed to a_star_solution with an
\* arbitrary EdgeSet.
MaxSide == 3

\* The model's stand-in for i32::MAX: distance_from_before wraps beyond it.
IntMax == 16

\* image_gen.rs: pixel size of a cell.
CELL == 20

None == <<>>

Range(f) == {f[k] : k \in DOMAIN f}

(***************************************************************************)
(* util.rs                                                                 *)
(***************************************************************************)
partial_neighbours(node, w, h) ==
    (IF node[1] + 1 < w THEN {<<node[1] + 1, node[2]>>} ELSE {})
    \cup (IF node[2] + 1 < h THEN {<<node[1], node[2] + 1>>} ELSE {})

all_neighbours(node, w, h) ==
    partial_neighbours(node, w, h)
    \cup (IF node[1] > 0 THEN {<<node[1] - 1, node[2]>>} ELSE {})
    \cup (IF node[2] > 0 THEN {<<node[1], node[2] - 1>>} ELSE {})

out_of_bounds(node, w, h) ==
    node[1] < 0 \/ node[2] < 0 \/ node[1] >= w \/ node[2] >= h

wall_between(ws, a, b) == <<a, b>> \in ws \/ <<b, a>> \in ws

(***************************************************************************)
(* kruskal.rs: the disjoint-set Graph                                      *)
(***************************************************************************)
\* Graph::new: every node its own parent, rank 0.
GraphNew(nodes) == [n \in nodes |-> [parent |-> n, rank |-> 0]]

\* find_and_cache_parent without `result.rank = find.rank`: the root's Node is
\* returned and cached as it is, rank included.
RECURSIVE find_and_cache_parent_root_rank(_, _)
find_and_cache_parent_root_rank(parents, node) ==
    LET find == parents[node] IN
    IF find.parent = node
    THEN [result |-> find, parents |-> parents]
    ELSE LET r == find_and_cache_parent_root_rank(parents, find.parent)
         IN  [result |-> r.result,
              parents |-> [r.parents EXCEPT ![node] = r.result]]

\* Graph::find_and_cache_parent: the Node returned and the map afterwards.
\* The returned Node carries the root as parent and the queried node's OWN
\* rank (result.rank = find.rank), and is cached under the queried node.
RECURSIVE find_and_cache_parent(_, _)
find_and_cache_parent(parents, node) ==
    LET find == parents[node] IN
    IF find.parent = node
    THEN [result |-> find, parents |-> parents]
    ELSE LET r == find_and_cache_parent(parents, find.parent)
             result == [parent |-> r.result.parent, rank |-> find.rank]
         IN  [result |-> result,
              parents |-> [r.parents EXCEPT ![node] = result]]

\* union_subtrees with the roots never resolved: the stored entries of a and b
\* are compared and linked as they stand.
union_subtrees_unresolved(parents, a, b) ==
    LET a_parent == parents[a]
        b_parent == parents[b]
        a_rank == IF a_parent.rank = b_parent.rank
                  THEN a_parent.rank + 1 ELSE a_parent.rank
        a_bumped == [parent |-> a_parent.parent, rank |-> a_rank]
    IN  IF a_parent.parent = b_parent.parent
        THEN [no_loop |-> FALSE, parents |-> parents]
        ELSE IF a_rank >= b_parent.rank
        THEN [no_loop |-> TRUE,
              parents |-> [parents EXCEPT ![b_parent.parent] = a_bumped]]
        ELSE [no_loop |-> TRUE,
              parents |-> [parents EXCEPT ![a_parent.parent] = b_parent]]

\* Graph::union_subtrees: the bool returned and the map afterwards.
union_subtrees(parents, a, b) ==
    LET fa == find_and_cache_parent(parents, a)
        fb == find_and_cache_parent(fa.parents, b)
        a_parent == fa.result
        b_parent == fb.result
        a_rank == IF a_parent.rank = b_parent.rank
                  THEN a_parent.rank + 1 ELSE a_parent.rank
        a_bumped == [parent |-> a_parent.parent, rank |-> a_rank]
    IN  IF a_parent.parent = b_parent.parent
        THEN [no_loop |-> FALSE, parents |-> fb.parents]
        ELSE IF a_rank >= b_parent.rank
        THEN [no_loop |-> TRUE,
              parents |-> [fb.parents EXCEPT ![b_parent.parent] = a_bumped]]
        ELSE [no_loop |-> TRUE,
              parents |-> [fb.parents EXCEPT ![a_parent.parent] = b_parent]]

(***************************************************************************)
(* kruskal.rs: generate_edges, and generate_maze of lib.rs around it       *)
(***************************************************************************)
\* (0..width).flat_map(|x| (0..height).map(|y| (x, y)))
Nodes(w, h) == {<<x, y>> : x \in 0 .. (w - 1), y \in 0 .. (h - 1)}

\* the edges HashSet: (node, nbour) for the right and down neighbour of each node
AllEdges(w, h) ==
    UNION {{<<n, m>> : m \in partial_neighbours(n, w, h)} : n \in Nodes(w, h)}

edge_count(w, h) == (w - 1) * h + (h - 1) * w

\* maze_image: the pixel sizes handed to RgbaImage::from_pixel as u32
ImageW(w) == (w - 1) * CELL * 2 + 37

(***************************************************************************)
(* a_star.rs                                                               *)
(***************************************************************************)
AStarNode(xy, parent, f_cost, g_cost) ==
    [xy |-> xy, parent |-> parent, f_cost |-> f_cost, g_cost |-> g_cost]

\* let min = width + height - 2
min_moves(w, h) == w + h - 2

start_node(w, h) == AStarNode(<<0, 0>>, <<0, 0>>, min_moves(w, h), 0)

\* AStarNode's PartialEq and Hash look at xy alone
contains(set, node) == \E m \in set : m.xy = node.xy

\* an insert that puts the new node in the place of an equal one
hash_set_insert_replacing(set, node) == {m \in set : m.xy # node.xy} \cup {node}

\* HashSet::insert: a value equal to one already in the set is dropped, the
\* stored one is not replaced
hash_set_insert(set, node) == IF contains(set, node) THEN set ELSE set \cup {node}

\* HashSet::remove
hash_set_remove(set, node) == {m \in set : m.xy # node.xy}

\* HashMap::insert(best.xy, best): replaces the entry of that key
hash_map_insert(map, node) == {m \in map : m.xy # node.xy} \cup {node}

contains_key(map, xy) == \E m \in map : m.xy = xy

\* closed.get(&xy).unwrap()
get(map, xy) == CHOOSE m \in map : m.xy = xy

\* the frontier nodes min_by can return: the first of the minimal f_cost in
\* the HashSet's iteration order, which is any of them; start_node when the
\* frontier is empty (unwrap_or)
best_of(set, w, h) ==
    IF set = {} THEN {start_node(w, h)}
    ELSE {n \in set : \A m \in set : n.f_cost <= m.f_cost}

\* a_star_for_neighbours probing the WallSet in the stored order alone
RECURSIVE a_star_for_neighbours_one_way(_, _, _, _, _, _)
a_star_for_neighbours_one_way(neighbours, best, ws, end, op, cl) ==
    IF neighbours = {} THEN op
    ELSE LET neighbour == CHOOSE n \in neighbours : TRUE
             h_cost == end[1] - neighbour[1] + end[2] - neighbour[2]
             g_cost == neighbour[1] + neighbour[2]
             node == AStarNode(neighbour, best.xy, g_cost + h_cost, g_cost)
             op1 == IF <<best.xy, neighbour>> \in ws
                    THEN op
                    ELSE IF contains_key(cl, neighbour)
                    THEN op
                    ELSE IF g_cost < best.g_cost \/ ~contains(op, node)
                    THEN hash_set_insert(op, node)
                    ELSE op
         IN  a_star_for_neighbours_one_way(neighbours \ {neighbour}, best, ws, end, op1, cl)

\* a_star_for_neighbours: the frontier after the loop over the neighbours
RECURSIVE a_star_for_neighbours(_, _, _, _, _, _)
a_star_for_neighbours(neighbours, best, ws, end, op, cl) ==
    IF neighbours = {} THEN op
    ELSE LET neighbour == CHOOSE n \in neighbours : TRUE
             h_cost == end[1] - neighbour[1] + end[2] - neighbour[2]
             g_cost == neighbour[1] + neighbour[2]
             node == AStarNode(neighbour, best.xy, g_cost + h_cost, g_cost)
             op1 == IF <<best.xy, neighbour>> \in ws \/ <<neighbour, best.xy>> \in ws
                    THEN op
                    ELSE IF contains_key(cl, neighbour)
                    THEN op
                    ELSE IF g_cost < best.g_cost \/ ~contains(op, node)
                    THEN hash_set_insert(op, node)
                    ELSE op
         IN  a_star_for_neighbours(neighbours \ {neighbour}, best, ws, end, op1, cl)

\* trace_path: the edges (parent, child) from the goal back to the origin
RECURSIVE trace_path(_, _)
trace_path(cur, cl) ==
    LET parent == get(cl, cur.parent) IN
    <<<<parent.xy, cur.xy>>>>
        \o (IF parent.xy = <<0, 0>> THEN <<>> ELSE trace_path(parent, cl))

\* path.iter().rev().copied().collect()
Reverse(s) == [k \in 1 .. Len(s) |-> s[Len(s) + 1 - k]]

\* match_diff: the label as (direction, maximal, amount); the maximal labels
\* are fixed texts ending in (+1), the others carry amt; None is the panic of
\* the last arm
match_diff(diff, max, amt) ==
    LET dir == CASE diff = <<0, -1>> -> "up"
                 [] diff = <<0, 1>> -> "down"
                 [] diff = <<-1, 0>> -> "left"
                 [] diff = <<1, 0>> -> "right"
                 [] OTHER -> "panic"
    IN  IF dir = "panic" THEN None
        ELSE IF max THEN [dir |-> dir, max |-> TRUE, amt |-> 1]
        ELSE [dir |-> dir, max |-> FALSE, amt |-> amt]

\* the difference without its absolute value
abs_diff_signed(a, b) == a - b

abs_diff(a, b) == IF a >= b THEN a - b ELSE b - a

\* distance_from_before += 1 on an i32
wrapping_add1(d) == IF d >= IntMax THEN 0 - IntMax - 1 ELSE d + 1

\* get_moves with both comparisons of lines 115 and 119 turned around
turn_moves_flipped(od, tu, dist) ==
    IF tu > 0 /\ dist <= tu
    THEN [n |-> tu, run |-> <<match_diff(od, FALSE, tu)>>]
    ELSE IF dist <= tu
    THEN [n |-> 0, run |-> <<>>]
    ELSE IF dist = 1
    THEN [n |-> dist, run |-> <<match_diff(od, TRUE, 1)>>]
    ELSE [n |-> dist,
          run |-> <<match_diff(od, TRUE, 1),
                    match_diff(<<0 - od[1], 0 - od[2]>>, FALSE, dist - 1)>>]

\* get_moves pushing the stepwise instruction of line 116 without line 117's
\* n_moves += to_use
turn_moves_uncounted(od, tu, dist) ==
    IF tu > 0 /\ dist >= tu
    THEN [n |-> 0, run |-> <<match_diff(od, FALSE, tu)>>]
    ELSE IF dist >= tu
    THEN [n |-> 0, run |-> <<>>]
    ELSE IF dist = 1
    THEN [n |-> dist, run |-> <<match_diff(od, TRUE, 1)>>]
    ELSE [n |-> dist,
          run |-> <<match_diff(od, TRUE, 1),
                    match_diff(<<0 - od[1], 0 - od[2]>>, FALSE, dist - 1)>>]

\* get_moves lines 115-133: what a turn adds to n_moves and to perfect_run
turn_moves(od, tu, dist) ==
    IF tu > 0 /\ dist >= tu
    THEN [n |-> tu, run |-> <<match_diff(od, FALSE, tu)>>]
    ELSE IF dist >= tu
    THEN [n |-> 0, run |-> <<>>]
    ELSE IF dist = 1
    THEN [n |-> dist, run |-> <<match_diff(od, TRUE, 1)>>]
    ELSE [n |-> dist,
          run |-> <<match_diff(od, TRUE, 1),
                    match_diff(<<0 - od[1], 0 - od[2]>>, FALSE, dist - 1)>>]

\* line 140 naming the cell diagonal to the goal instead of its two neighbours
last_is_max_diagonal(ptp, w, h) == ptp # <<w - 2, h - 2>>

\* get_moves line 140: whether the last instruction is a maximal one
last_is_max(ptp, w, h) == ptp # <<w - 2, h - 1>> /\ ptp # <<w - 1, h - 2>>

(***************************************************************************)
(* lib.rs: the moves of the player                                         *)
(***************************************************************************)
\* has_wall_between without the lookup in the WallSet
has_wall_between_bounds_only(ws, w, h, a, b) ==
    out_of_bounds(b, w, h) \/ out_of_bounds(a, w, h)

\* Maze::has_wall_between
has_wall_between(ws, w, h, a, b) ==
    wall_between(ws, a, b) \/ out_of_bounds(b, w, h) \/ out_of_bounds(a, w, h)

\* Maze::move_max: the position returned (the redrawing of the player is
\* left out)
RECURSIVE move_max(_, _, _, _, _)
move_max(ws, w, h, cur, direction) ==
    LET n == <<cur[1] + direction[1], cur[2] + direction[2]>> IN
    IF out_of_bounds(n, w, h) \/ has_wall_between(ws, w, h, cur, n)
    THEN cur
    ELSE move_max(ws, w, h, n, direction)

(***************************************************************************)
(* Initial states                                                          *)
(***************************************************************************)
NoSearch ==
    /\ open = {}
    /\ closed = {}
    /\ current = None
    /\ path = <<>>

NoMoves ==
    /\ pos = 0
    /\ n_moves = 0
    /\ perfect_run = <<>>
    /\ prev_diff = None
    /\ prev_turn_point = <<0, 0>>

NoTurn ==
    /\ before = None
    /\ old_diff = None
    /\ to_use = 0
    /\ distance_from_before = 0

GenDims == {d \in (0 .. MaxGenCells) \X (0 .. MaxGenCells) : d[1] * d[2] <= MaxGenCells}

\* generate_maze is called with any width and height
Init ==
    /\ pc = "start"
    /\ \E d \in GenDims : width = d[1] /\ height = d[2]
    /\ edges = {}
    /\ graph = None
    /\ walls = {}
    /\ paths = {}
    /\ err = "none"
    /\ NoSearch /\ NoMoves /\ NoTurn

\* The mazes generate_edges can return for a w x h grid: the wall sets whose
\* complement in the grid's edges connects all cells with cells - 1 edges.
RECURSIVE Reachable(_, _)
Reachable(seen, es) ==
    LET more == {e[2] : e \in {e \in es : e[1] \in seen}}
                \cup {e[1] : e \in {e \in es : e[2] \in seen}}
    IN  IF more \subseteq seen THEN seen ELSE Reachable(seen \cup more, es)

Connected(nodes, es) == nodes = {} \/ Reachable({CHOOSE n \in nodes : TRUE}, es) = nodes

PerfectMazes(w, h) ==
    {ws \in SUBSET AllEdges(w, h) :
        /\ Cardinality(ws) = edge_count(w, h) - (w * h - 1)
        /\ Connected(Nodes(w, h), AllEdges(w, h) \ ws)}

SolveDims == {d \in (1 .. MaxCells) \X (1 .. MaxCells) : d[1] * d[2] <= MaxCells}

\* compute_solution is called on a Maze that generate_maze has built
SolveInit ==
    /\ pc = "maze"
    /\ \E d \in SolveDims : width = d[1] /\ height = d[2]
    /\ walls \in PerfectMazes(width, height)
    /\ paths = AllEdges(width, height) \ walls
    /\ edges = {}
    /\ graph = None
    /\ err = "none"
    /\ NoSearch /\ NoMoves /\ NoTurn

\* Both orientations of the grid's edges.
BothWays(w, h) == AllEdges(w, h) \cup {<<e[2], e[1]>> : e \in AllEdges(w, h)}

\* a_star_solution is a pub fn: it is called on any EdgeSet, here the sets of
\* at most two walls, each stored in either orientation
AnyInit ==
    /\ pc = "maze"
    /\ width \in 1 .. MaxSide
    /\ height \in 1 .. MaxSide
    /\ walls \in {{e1, e2} : e1 \in BothWays(width, height),
                             e2 \in BothWays(width, height)} \cup {{}}
    /\ paths = {}
    /\ edges = {}
    /\ graph = None
    /\ err = "none"
    /\ NoSearch /\ NoMoves /\ NoTurn

(***************************************************************************)
(* generate_maze                                                           *)
(***************************************************************************)
\* generate_maze calls generate_edges: nodes, the edges set with its capacity,
\* Graph::new and the walls set.  (The colour and icon arguments of
\* generate_maze belong to the image layer and are left out.)  A negative edge_count cast to usize makes
\* HashSet::with_capacity panic (capacity overflow).
GenerateEdgesBegin ==
    /\ pc = "start"
    /\ IF edge_count(width, height) < 0
       THEN /\ pc' = "panic"
            /\ err' = "capacity overflow"
            /\ UNCHANGED <<edges, graph>>
       ELSE /\ pc' = "kruskal"
            /\ edges' = AllEdges(width, height)
            /\ graph' = GraphNew(Nodes(width, height))
            /\ err' = "none"
    /\ UNCHANGED <<width, height, walls, paths, path,
                   search_vars, move_vars, turn_vars>>

\* one iteration of `for edge in edges.iter().copied()`: the HashSet yields
\* its edges in an arbitrary order.
VisitEdge ==
    /\ pc = "kruskal"
    /\ \E edge \in edges :
         LET u == union_subtrees(graph, edge[1], edge[2]) IN
         /\ edges' = edges \ {edge}
         /\ graph' = u.parents
         /\ walls' = IF u.no_loop THEN walls ELSE walls \cup {edge}
         /\ paths' = IF u.no_loop THEN paths \cup {edge} ELSE paths
    /\ UNCHANGED <<pc, width, height, err, path,
                   search_vars, move_vars, turn_vars>>

\* generate_edges returns (the Graph is dropped); generate_maze draws the maze
\* image, whose size is negative cast to u32 when a dimension is below 1, and
\* builds the Maze.
GenerateMazeEnd ==
    /\ pc = "kruskal"
    /\ edges = {}
    /\ graph' = None
    /\ IF ImageW(width) < 0 \/ ImageW(height) < 0
       THEN pc' = "panic" /\ err' = "image size overflow"
       ELSE pc' = "maze" /\ err' = "none"
    /\ UNCHANGED <<width, height, edges, walls, paths, path,
                   search_vars, move_vars, turn_vars>>

(***************************************************************************)
(* Maze::compute_solution -> a_star_solution                               *)
(***************************************************************************)
\* a_star_solution up to the search loop
AStarBegin ==
    /\ pc = "maze"
    /\ pc' = "search"
    /\ open' = {start_node(width, height)}
    /\ closed' = {}
    /\ UNCHANGED <<width, height, walls, err, path, current,
                   gen_vars, move_vars, turn_vars>>

\* one iteration of the search loop
AStarLoop ==
    /\ pc = "search"
    /\ \E best \in best_of(open, width, height) :
         LET end == <<width - 1, height - 1>>
             open1 == hash_set_remove(open, best)
             closed1 == hash_map_insert(closed, best)
         IN  /\ closed' = closed1
             /\ IF best.xy = end
                THEN /\ pc' = "trace"
                     /\ current' = best
                     /\ open' = open1
                ELSE /\ pc' = "search"
                     /\ current' = current
                     /\ open' = a_star_for_neighbours(
                                    all_neighbours(best.xy, width, height),
                                    best, walls, end, open1, closed1)
    /\ UNCHANGED <<width, height, walls, err, path,
                   gen_vars, move_vars, turn_vars>>

\* trace_path, and get_moves up to its for loop
TracePath ==
    /\ pc = "trace"
    /\ pc' = "get_moves"
    /\ path' = trace_path(current, closed)
    /\ pos' = 1
    /\ n_moves' = 0
    /\ perfect_run' = <<>>
    /\ prev_diff' = None
    /\ prev_turn_point' = <<0, 0>>
    /\ UNCHANGED <<width, height, walls, err,
                   gen_vars, search_vars, turn_vars>>

\* one iteration of get_moves' for loop, up to the call of remaining_length
GetMovesIter ==
    /\ pc = "get_moves"
    /\ pos <= Len(path)
    /\ LET e == Reverse(path)[pos]
           bef == e[1]
           cur == e[2]
           diff == <<cur[1] - bef[1], cur[2] - bef[2]>>
           diff_to_prev == <<abs_diff(prev_turn_point[1], bef[1]),
                             abs_diff(prev_turn_point[2], bef[2])>>
       IN  IF prev_diff # None /\ prev_diff = diff
           THEN /\ pos' = pos + 1
                /\ UNCHANGED <<pc, n_moves, perfect_run, prev_diff,
                               prev_turn_point, turn_vars>>
           ELSE /\ old_diff' = IF prev_diff = None THEN diff ELSE prev_diff
                /\ prev_diff' = diff
                /\ to_use' = IF diff_to_prev[1] = 0
                             THEN diff_to_prev[2] ELSE diff_to_prev[1]
                /\ prev_turn_point' = bef
                /\ before' = bef
                /\ distance_from_before' = 1
                /\ pc' = "remaining_length"
                /\ UNCHANGED <<pos, n_moves, perfect_run>>
    /\ UNCHANGED <<width, height, walls, err, path, gen_vars, search_vars>>

\* one iteration of remaining_length's loop; the increment that overflows the
\* i32 wraps in a release build and panics in one with overflow checks
RemainingLengthLoop ==
    /\ pc = "remaining_length"
    /\ LET node1 == <<before[1] + old_diff[1] * distance_from_before,
                      before[2] + old_diff[2] * distance_from_before>>
           node2 == <<node1[1] - old_diff[1], node1[2] - old_diff[2]>>
       IN  IF out_of_bounds(node1, width, height) \/ wall_between(walls, node1, node2)
           THEN /\ pc' = "turn"
                /\ UNCHANGED <<distance_from_before, err>>
           ELSE \/ /\ pc' = "remaining_length"
                   /\ distance_from_before' = wrapping_add1(distance_from_before)
                   /\ err' = err
                \/ /\ distance_from_before >= IntMax
                   /\ pc' = "panic"
                   /\ err' = "add overflow"
                   /\ UNCHANGED distance_from_before
    /\ UNCHANGED <<width, height, walls, path, before, old_diff, to_use,
                   gen_vars, search_vars, move_vars>>

\* the rest of the iteration, once remaining_length has returned
GetMovesTurn ==
    /\ pc = "turn"
    /\ LET t == turn_moves(old_diff, to_use, distance_from_before) IN
       IF None \in Range(t.run)
       THEN /\ pc' = "panic"
            /\ err' = "match_diff"
            /\ UNCHANGED <<move_vars, turn_vars>>
       ELSE /\ pc' = "get_moves"
            /\ err' = err
            /\ n_moves' = n_moves + t.n
            /\ perfect_run' = perfect_run \o t.run
            /\ pos' = pos + 1
            /\ before' = None
            /\ old_diff' = None
            /\ to_use' = 0
            /\ distance_from_before' = 0
            /\ UNCHANGED <<prev_diff, prev_turn_point>>
    /\ UNCHANGED <<width, height, walls, path, gen_vars, search_vars>>

\* after the for loop: the last instruction, and a_star_solution returns
\* (n_moves, perfect_run, path)
GetMovesEnd ==
    /\ pc = "get_moves"
    /\ pos > Len(path)
    /\ LET last == match_diff(prev_diff, last_is_max(prev_turn_point, width, height), 1) IN
       IF last = None
       THEN /\ pc' = "panic"
            /\ err' = "match_diff"
            /\ UNCHANGED <<n_moves, perfect_run>>
       ELSE /\ pc' = "done"
            /\ err' = err
            /\ n_moves' = n_moves + 1
            /\ perfect_run' = Append(perfect_run, last)
    /\ UNCHANGED <<width, height, walls, path, pos, prev_diff, prev_turn_point,
                   gen_vars, search_vars, turn_vars>>

NextGenerate ==
    \/ GenerateEdgesBegin
    \/ VisitEdge
    \/ GenerateMazeEnd

NextSolve ==
    \/ AStarBegin
    \/ AStarLoop
    \/ TracePath
    \/ GetMovesIter
    \/ RemainingLengthLoop
    \/ GetMovesTurn
    \/ GetMovesEnd

Next == NextGenerate \/ NextSolve

\* the whole program: generate_maze, then compute_solution
Spec == Init /\ [][Next]_vars

\* compute_solution on every maze generate_maze can build
SolveSpec == SolveInit /\ [][NextSolve]_vars

\* ... which, once called, keeps running: nothing else schedules it
FairSolveSpec == SolveSpec /\ WF_vars(NextSolve)

\* a_star_solution on any small EdgeSet
AnySpec == AnyInit /\ [][NextSolve]_vars

(***************************************************************************)
(* Properties                                                              *)
(***************************************************************************)
Goal == <<width - 1, height - 1>>

Cells == width * height

\* no edge of es closes a cycle: its ends are not joined by the others
Acyclic(es) == \A e \in es : e[2] \notin Reachable({e[1]}, es \ {e})

\* generate_edges has visited every edge of a grid of at least one cell
Generated == width >= 1 /\ height >= 1 /\ pc \notin {"start", "panic"} /\ edges = {}

\* C1: for W,H >= 1 and any order of the edges, the grid edges outside the
\* WallSet form a spanning tree (all cells connected, no cycle, W*H-1 edges),
\* they are exactly the edges whose union_subtrees returned true, and
\* |WallSet| = (W-1)*H + (H-1)*W - (W*H-1).
C1_SpanningTree ==
    Generated =>
        LET corridors == AllEdges(width, height) \ walls IN
        /\ walls \subseteq AllEdges(width, height)
        /\ Connected(Nodes(width, height), corridors)
        /\ Acyclic(corridors)
        /\ Cardinality(corridors) = Cells - 1
        /\ paths = corridors
        /\ Cardinality(walls) = edge_count(width, height) - (Cells - 1)

\* a 3 x 2 maze is built: 7 edges, 5 joined, 2 walls
C1_Witness ==
    /\ pc = "maze" /\ width = 3 /\ height = 2
    /\ Cardinality(walls) = 2 /\ Cardinality(paths) = 5

\* C2: on every generated maze, the 1 x 1 grid included, a_star_solution
\* terminates and returns a result.
C2_Terminates == <>(pc = "done")

\* C3: with the goal unreachable, the search stops once the frontier is
\* exhausted and reports no route: from a search loop whose frontier is empty
\* the program moves on instead of iterating in place.
C3_ExhaustedFrontierReported ==
    (pc = "search" /\ open = {}) => ENABLED <<AStarLoop>>_vars

\* C4: generate_maze with width < 1 or height < 1 fails with InvalidDimensions
\* before any cell list, edge collection, union-find or wall set is built.
C4_InvalidDimensionsRejected ==
    (width < 1 \/ height < 1) =>
        \/ pc = "start"
        \/ /\ err = "InvalidDimensions"
           /\ edges = {} /\ graph = None /\ walls = {}

\* the cells a returned path visits, in the order of the EdgeVec
PathCells(p) == [k \in 1 .. Len(p) + 1 |-> IF k = 1 THEN p[1][2] ELSE p[k - 1][1]]

InGrid(c) == c[1] >= 0 /\ c[1] < width /\ c[2] >= 0 /\ c[2] < height

Manhattan(a, b) ==
    (IF a[1] >= b[1] THEN a[1] - b[1] ELSE b[1] - a[1])
    + (IF a[2] >= b[2] THEN a[2] - b[2] ELSE b[2] - a[2])

\* a and b are neighbours in the grid and no wall, stored either way, parts them
Passable(a, b) ==
    /\ InGrid(a) /\ InGrid(b)
    /\ Manhattan(a, b) = 1
    /\ <<a, b>> \notin walls
    /\ <<b, a>> \notin walls

\* C5: a returned path visits no coordinate twice and each of its edges joins
\* two grid-adjacent in-bounds cells with no wall between them, the wall
\* stored as (a,b) or as (b,a).
C5_PathValid ==
    pc = "done" =>
        /\ \A k, l \in 1 .. Len(path) + 1 :
              k # l => PathCells(path)[k] # PathCells(path)[l]
        /\ \A k \in 1 .. Len(path) : Passable(path[k][1], path[k][2])

\* a returned path that walks left past a wall stored as (left cell, right cell)
C5_Witness ==
    /\ pc = "done"
    /\ \E k \in 1 .. Len(path) :
          /\ path[k][2][1] < path[k][1][1]
          /\ \E w \in walls : w[2] = path[k][1] \/ w[2] = path[k][2]

\* the number of steps of a shortest route from the cells of `from` to the
\* goal, -1 if there is none
RECURSIVE StepsToGoal(_, _, _)
StepsToGoal(from, seen, d) ==
    IF Goal \in from THEN d
    ELSE LET next == {c \in Nodes(width, height) \ seen :
                        \E f \in from : Passable(f, c)}
         IN  IF next = {} THEN 0 - 1
             ELSE StepsToGoal(next, seen \cup next, d + 1)

Shortest == StepsToGoal({<<0, 0>>}, {<<0, 0>>}, 0)

\* C6: whenever the goal is reachable, whatever the search picks among equal
\* f, the returned path is a shortest route, of length >= W+H-2, and of
\* length W+H-2 exactly when the WallSet is empty.
C6_ShortestPath ==
    pc = "done" =>
        /\ Len(path) = Shortest
        /\ Len(path) >= width + height - 2
        /\ (walls = {} => Len(path) = width + height - 2)

\* C7: on every generated maze the move count is at most the raw path length.
C7_MovesAtMostPath == pc = "done" => n_moves <= Len(path)

\* a solved maze whose path turns and whose move count equals the path length
C7_Witness ==
    /\ pc = "done"
    /\ Len(path) >= 4
    /\ Len(perfect_run) >= 3
    /\ n_moves = Len(path)

Diff(e) == <<e[2][1] - e[1][1], e[2][2] - e[1][2]>>

\* the number of straight runs of an origin-to-goal path
Runs(rp) == 1 + Cardinality({k \in 2 .. Len(rp) : Diff(rp[k]) # Diff(rp[k - 1])})

\* C8 as claimed: on every generated maze the move count is at least W+H-2.
C8_MovesAtLeastManhattan == pc = "done" => n_moves >= width + height - 2

\* C8 as amended: on every generated maze the move count is at least the
\* number of straight runs of the solved path, so at least 1, and at least 2
\* when W,H >= 2; it can be below W+H-2.
C8_MovesAtLeastRuns ==
    pc = "done" =>
        /\ n_moves >= Runs(Reverse(path))
        /\ n_moves >= 1
        /\ (width >= 2 /\ height >= 2 => n_moves >= 2)

\* a solved maze with a turn whose move count is below W+H-2
C8_Witness ==
    /\ pc = "done"
    /\ Runs(Reverse(path)) >= 2
    /\ n_moves < width + height - 2

\* C9: the returned path runs from the origin to the goal: its first edge
\* starts at (0,0), its last edge ends at (W-1,H-1), and each edge starts
\* where the previous one ended.
C9_OriginToGoal ==
    pc = "done" =>
        /\ path[1][1] = <<0, 0>>
        /\ path[Len(path)][2] = Goal
        /\ \A k \in 1 .. Len(path) - 1 : path[k + 1][1] = path[k][2]

(***************************************************************************)
(* C10: what get_moves does at a turn, measured on the path and the walls  *)
(***************************************************************************)
\* the turn being handled: the edge at pos is the first of the new direction
TurnPoint == Reverse(path)[pos][1]

\* the direction before the turn (the first edge's own at the start)
OldDir == IF pos = 1 THEN Diff(Reverse(path)[1]) ELSE Diff(Reverse(path)[pos - 1])

\* the cells travelled since the previous turning point: the length of the
\* straight run of the path that ends at the turning point
RunLength ==
    LET rp == Reverse(path) IN
    CHOOSE k \in 0 .. pos - 1 :
        /\ \A j \in 1 .. k : Diff(rp[pos - j]) = Diff(rp[pos - 1])
        /\ k = pos - 1 \/ Diff(rp[pos - k - 1]) # Diff(rp[pos - 1])

Ahead(k) == <<TurnPoint[1] + OldDir[1] * k, TurnPoint[2] + OldDir[2] * k>>

\* how far one can still advance from the turning point in the old direction
FreeAhead ==
    CHOOSE k \in 0 .. width + height :
        /\ \A j \in 1 .. k : Passable(Ahead(j - 1), Ahead(j))
        /\ ~Passable(Ahead(k), Ahead(k + 1))

DirName(d) ==
    CASE d = <<0, -1>> -> "up" [] d = <<0, 1>> -> "down"
      [] d = <<-1, 0>> -> "left" [] d = <<1, 0>> -> "right"

Maximal(d) == [dir |-> DirName(d), max |-> TRUE, amt |-> 1]

Stepwise(d, n) == [dir |-> DirName(d), max |-> FALSE, amt |-> n]

Back(d) == <<0 - d[1], 0 - d[2]>>

\* get_moves finishes the handling of a turn
TurnStep == pc = "turn" /\ pc' = "get_moves"

\* the three cases as claimed, for a remaining length r
Claimed(r) ==
    \/ /\ RunLength >= r
       /\ perfect_run' = Append(perfect_run, Maximal(OldDir))
       /\ n_moves' = n_moves + 1
    \/ /\ RunLength = 0
       /\ perfect_run' = perfect_run
       /\ n_moves' = n_moves
    \/ /\ 0 < RunLength /\ RunLength < r
       /\ perfect_run' = perfect_run \o <<Stepwise(OldDir, RunLength), Maximal(OldDir)>>
       /\ n_moves' = n_moves + RunLength

\* C10 as claimed: at every turn, (i) to_use >= remaining_length: one maximal
\* instruction in the old direction, +1; (ii) to_use = 0: nothing; (iii)
\* 0 < to_use < remaining_length: one stepwise instruction of to_use, +to_use,
\* then one maximal instruction in the old direction.  remaining_length is
\* read either as the cells still free ahead of the turning point or as
\* remaining_length's return value, one more than that.
C10_TurnAsClaimed == [][TurnStep => Claimed(FreeAhead) \/ Claimed(FreeAhead + 1)]_vars

\* C10 as amended, remaining_length being the value remaining_length returns
\* (one more than the cells free ahead): (i) to_use > remaining_length: one
\* maximal instruction in the old direction, +remaining_length, followed when
\* remaining_length > 1 by one stepwise instruction of remaining_length - 1 in
\* the opposite direction; (ii) to_use = 0: nothing; (iii) 0 < to_use <=
\* remaining_length: one stepwise instruction of to_use in the old direction,
\* +to_use, and nothing more.
C10_TurnAsCoded ==
    [][TurnStep =>
        LET r == FreeAhead + 1 IN
        \/ /\ RunLength > r
           /\ perfect_run' = perfect_run \o <<Maximal(OldDir)>>
                   \o (IF r > 1 THEN <<Stepwise(Back(OldDir), r - 1)>> ELSE <<>>)
           /\ n_moves' = n_moves + r
        \/ /\ RunLength = 0
           /\ perfect_run' = perfect_run
           /\ n_moves' = n_moves
        \/ /\ 0 < RunLength /\ RunLength <= r
           /\ perfect_run' = Append(perfect_run, Stepwise(OldDir, RunLength))
           /\ n_moves' = n_moves + RunLength]_vars

\* a turn has been handled by sliding to the wall and stepping back
C10_Witness ==
    /\ pc = "get_moves"
    /\ \E k \in 1 .. Len(perfect_run) - 1 :
          /\ perfect_run[k].max
          /\ ~perfect_run[k + 1].max
          /\ \E d \in {<<0, 1>>, <<1, 0>>, <<0, -1>>, <<-1, 0>>} :
                /\ perfect_run[k].dir = DirName(d)
                /\ perfect_run[k + 1].dir = DirName(Back(d))

(***************************************************************************)
(* C11: the final instruction of get_moves                                 *)
(***************************************************************************)
\* the final turning point, measured on the path: the cell where its last
\* straight run starts
LastTurnPoint ==
    LET rp == Reverse(path)
        k == CHOOSE j \in 1 .. Len(rp) :
                 /\ \A l \in j .. Len(rp) : Diff(rp[l]) = Diff(rp[Len(rp)])
                 /\ j = 1 \/ Diff(rp[j - 1]) # Diff(rp[Len(rp)])
    IN  rp[k][1]

LastDir == Diff(Reverse(path)[Len(path)])

\* get_moves leaves its loop and returns
FinalStep == pc = "get_moves" /\ pc' = "done"

\* one instruction appended and one move counted
OneMore(ins) == perfect_run' = Append(perfect_run, ins) /\ n_moves' = n_moves + 1

\* a maze of a single row, at least three cells wide
SingleRow == height = 1 /\ width >= 3

\* C11 as claimed: the final instruction is a literal single step when the
\* final turning point is (W-2,H-2) and a maximal one otherwise.
C11_LiteralAtDiagonal ==
    [][FinalStep =>
          OneMore(IF LastTurnPoint = <<width - 2, height - 2>>
                  THEN Stepwise(LastDir, 1) ELSE Maximal(LastDir))]_vars

\* C11 as amended: after the last turn get_moves appends exactly one
\* instruction, in the direction of the last run, and adds exactly 1 to the
\* move count; the instruction is a literal single step when the final
\* turning point is (W-2,H-1) or (W-1,H-2), the two cells next to the goal,
\* and maximal otherwise; a single-row maze with W >= 3 yields exactly one
\* instruction, maximal, and a move count of 1.
C11_LiteralNextToGoal ==
    [][FinalStep =>
          /\ OneMore(IF LastTurnPoint \in {<<width - 2, height - 1>>,
                                           <<width - 1, height - 2>>}
                     THEN Stepwise(LastDir, 1) ELSE Maximal(LastDir))
          /\ SingleRow => perfect_run' = <<Maximal(<<1, 0>>)>> /\ n_moves' = 1]_vars

\* a solved maze with a turn whose last run is the single step into the goal
C11_Witness ==
    /\ pc = "done"
    /\ Runs(Reverse(path)) >= 2
    /\ LastTurnPoint \in {<<width - 2, height - 1>>, <<width - 1, height - 2>>}
    /\ perfect_run[Len(perfect_run)] = Stepwise(LastDir, 1)

(***************************************************************************)
(* C12: union_subtrees on the Graph of generate_edges                      *)
(***************************************************************************)
\* the representative of n: the end of its chain of parent entries
RECURSIVE Root(_, _)
Root(parents, n) ==
    IF parents[n].parent = n THEN n ELSE Root(parents, parents[n].parent)

\* every node's representative
Roots(parents) == [n \in DOMAIN parents |-> Root(parents, n)]

\* generate_edges calls union_subtrees on one more edge
UnionStep == pc = "kruskal" /\ edges' # edges

\* the edge of that call, and what the call returned: generate_edges puts the
\* edge into walls exactly when union_subtrees returned false
UnionEdge == CHOOSE e \in edges : e \notin edges'

ReturnedFalse == UnionEdge \in walls'

\* false exactly when a and b have the same representative
FalseIffJoined(r, a, b) == ReturnedFalse <=> r[a] = r[b]

\* the partition: the sets of nodes that share a representative
Sets(r) == {{n \in DOMAIN r : r[n] = m} : m \in Range(r)}

SetOf(r, a) == {n \in DOMAIN r : r[n] = r[a]}

\* on true the sets of a and b are one set and the other sets are as before;
\* r and r2 are the representatives before and after
MergedOnTrue(r, r2, a, b) ==
    ~ReturnedFalse =>
        Sets(r2) = (Sets(r) \ {SetOf(r, a), SetOf(r, b)})
                       \cup {SetOf(r, a) \cup SetOf(r, b)}

\* C12 as claimed: union_subtrees(a,b) returns false exactly when a and b
\* have the same representative and then changes no parent entry and no
\* rank; otherwise it returns true, a's set and b's set are one set
\* afterwards and every other set is unchanged.
C12_NoMutationOnFalse ==
    [][UnionStep =>
          LET r == Roots(graph)
              r2 == Roots(graph')
              a == UnionEdge[1]
              b == UnionEdge[2]
          IN  /\ FalseIffJoined(r, a, b)
              /\ ReturnedFalse => graph' = graph
              /\ MergedOnTrue(r, r2, a, b)]_vars

\* C12 as amended: as claimed, except that a call returning false may
\* re-point parent entries: every entry it changes then names the node's
\* own representative, and no representative and no rank changes.
C12_PartitionKeptOnFalse ==
    [][UnionStep =>
          LET r == Roots(graph)
              r2 == Roots(graph')
              a == UnionEdge[1]
              b == UnionEdge[2]
          IN  /\ FalseIffJoined(r, a, b)
              /\ ReturnedFalse =>
                    /\ r2 = r
                    /\ \A n \in DOMAIN graph :
                          /\ graph'[n].rank = graph[n].rank
                          /\ graph'[n].parent \in {graph[n].parent, r[n]}
              /\ MergedOnTrue(r, r2, a, b)]_vars

\* after earlier unions, some of them refused, an edge is left whose ends are
\* already joined and one of which is not yet entered under its representative
C12_Witness ==
    /\ pc = "kruskal"
    /\ walls # {}
    /\ \E e \in edges :
          /\ Root(graph, e[1]) = Root(graph, e[2])
          /\ graph[e[1]].parent # Root(graph, e[1])

(***************************************************************************)
(* C13: what an expansion does to the frontier                             *)
(***************************************************************************)
\* the search loop expands a node and goes round again
ExpandStep == pc = "search" /\ pc' = "search"

\* the node expanded: the frontier node the step finalizes, or the start
\* node when the frontier is empty
Expanded ==
    IF open = {}
    THEN [xy |-> <<0, 0>>, parent |-> <<0, 0>>,
          f_cost |-> width + height - 2, g_cost |-> 0]
    ELSE CHOOSE n \in open : n \in closed' /\ \A e \in open' : e.xy # n.xy

\* the neighbours of the cell c that are not walled off from it
OpenNeighbours(c) ==
    {m \in Nodes(width, height) : Passable(c, m)}

Finalized(cl, m) == \E e \in cl : e.xy = m

InFrontier(op, m) == \E e \in op : e.xy = m

Entry(op, m) == CHOOSE e \in op : e.xy = m

\* the candidate the expansion of n builds for its neighbour m
Candidate(n, m) ==
    [xy |-> m, parent |-> n.xy,
     g_cost |-> m[1] + m[2],
     f_cost |-> m[1] + m[2] + Manhattan(m, Goal)]

Worse(old, new) == old.g_cost > new.g_cost \/ old.f_cost > new.f_cost

\* C13: when a node n is expanded, each neighbour m that is not walled off
\* from n and not finalized is inserted with parent n if it is not in the
\* frontier; if it is, its entry becomes the candidate (parent n, g = m.x+m.y,
\* f = g + heuristic) when its tracked cost is worse and the candidate's g is
\* below n's own g, and stays as it was otherwise.
C13_InsertOrUpdate ==
    [][ExpandStep =>
          LET n == Expanded IN
          \A m \in OpenNeighbours(n.xy) :
              ~Finalized(closed', m) =>
                  /\ Cardinality({e \in open' : e.xy = m}) = 1
                  /\ Entry(open', m) =
                        IF ~InFrontier(open, m)
                        THEN Candidate(n, m)
                        ELSE IF /\ Worse(Entry(open, m), Candidate(n, m))
                                /\ Candidate(n, m).g_cost < n.g_cost
                        THEN Candidate(n, m)
                        ELSE Entry(open, m)]_vars

\* a node has been expanded next to a frontier node that lies nearer the
\* origin and was reached from elsewhere: the frontier node kept its parent
C13_Witness ==
    /\ pc = "search"
    /\ \E n \in closed, e \in open :
          /\ Passable(n.xy, e.xy)
          /\ e.g_cost < n.g_cost
          /\ e.parent # n.xy

(***************************************************************************)
(* C14: replaying the instructions                                         *)
(***************************************************************************)
\* the direction an instruction names, as the UP, DOWN, LEFT, RIGHT of lib.rs
DirOf(ins) ==
    CASE ins.dir = "up" -> <<0, -1>> [] ins.dir = "down" -> <<0, 1>>
      [] ins.dir = "left" -> <<-1, 0>> [] ins.dir = "right" -> <<1, 0>>

\* the cell k steps from p in the direction d
Walk(p, d, k) == <<p[1] + d[1] * k, p[2] + d[2] * k>>

\* where one instruction takes the player from p, and whether every step of
\* it stays in the grid and crosses no wall
Play(ins, p) ==
    IF ins.max
    THEN LET q == move_max(walls, width, height, p, DirOf(ins))
             n == Manhattan(p, q)
         IN  [at |-> q,
              ok |-> /\ InGrid(p)
                     /\ q = Walk(p, DirOf(ins), n)
                     /\ \A k \in 1 .. n :
                           Passable(Walk(p, DirOf(ins), k - 1), Walk(p, DirOf(ins), k))]
    ELSE [at |-> Walk(p, DirOf(ins), ins.amt),
          ok |-> /\ ins.amt >= 1
                 /\ \A k \in 1 .. ins.amt :
                       Passable(Walk(p, DirOf(ins), k - 1), Walk(p, DirOf(ins), k))]

\* the instructions played in order from p
RECURSIVE Replay(_, _)
Replay(run, p) ==
    IF run = <<>> THEN [at |-> p, ok |-> TRUE]
    ELSE LET first == Play(Head(run), p)
             rest == Replay(Tail(run), first.at)
         IN  [at |-> rest.at, ok |-> first.ok /\ rest.ok]

\* C14: on every generated maze on which the solver returns, the emitted
\* instructions replayed from (0,0), a maximal one as Maze::move_max moves
\* and a stepwise one of magnitude N as N cells in its direction, cross no
\* wall, stay in the grid and end on (W-1,H-1).
C14_ReplayReachesGoal ==
    pc = "done" =>
        LET r == Replay(perfect_run, <<0, 0>>) IN r.ok /\ r.at = Goal

\* a solved maze whose instructions slide into a wall and step back, replayed
\* to the goal
C14_Witness ==
    /\ pc = "done"
    /\ \E k \in 1 .. Len(perfect_run) - 1 :
          /\ perfect_run[k].max
          /\ ~perfect_run[k + 1].max
          /\ DirOf(perfect_run[k + 1]) = Back(DirOf(perfect_run[k]))
    /\ Replay(perfect_run, <<0, 0>>).at = Goal

=============================================================================
